---- MODULE Spec2Model ----
(***************************************************************************)
(* A model of fuse/loopback.go: the loopback filesystem that forwards     *)
(* every request to a host filesystem.                                     *)
(*                                                                         *)
(* Part I is a small host filesystem (names, inodes, descriptors), Part   *)
(* II the path operations of LoopbackFileSystem and the operations of     *)
(* LoopbackFile on top of it.  Part III is OpenDir: the goroutine that    *)
(* reads the host directory in batches of `want` entries and sends them   *)
(* on a buffered channel, and the caller that receives from the channel.  *)
(***************************************************************************)
EXTENDS Integers, Sequences, FiniteSets, TLC

\* Batch size of Readdir and capacity of the channel (loopback.go:54-55).
\* The source uses 500; the model scales it down.
want == 3

\* Largest host directory: two full batches and a short one.
MaxDir == 2 * want + 2

\* Cap on the number of Readdir calls of one listing.
MaxReaddir == 5

Min(a, b) == IF a < b THEN a ELSE b

Range(s) == {s[k] : k \in 1..Len(s)}

(***************************************************************************)
(* os.Error values and their translation to a Status.                     *)
(***************************************************************************)
Nil == [type |-> "nil", errno |-> "OK"]

PathError(e) == [type |-> "PathError", errno |-> e]

SyscallError(e) == [type |-> "SyscallError", errno |-> e]

OK == "OK"

ENOENT == "ENOENT"

\* OsErrorToErrno unwraps the errno of the host error; nil is OK, and an
\* error that carries no errno is ENOSYS.
OsErrorToErrno(e) ==
    IF e = Nil THEN OK
    ELSE IF e.type \in {"PathError", "SyscallError", "LinkError", "Errno"}
    THEN e.errno
    ELSE "ENOSYS"

\* Status(errno): the numeric cast of a raw syscall result, 0 being OK.
Status(errno) == errno

(***************************************************************************)
(* State                                                                   *)
(***************************************************************************)
VARIABLES
    dir,        \* host: the entries of the directory, a sequence of FileInfo
    dirPos,     \* host: entries already returned through the open handle
    dirFile,    \* host: state of the handle f: "none", "open", "closed"
    dirFailed,  \* host: some Readdir of this handle reported an error
    nReaddir,   \* host: number of Readdir calls received
    stream,     \* the channel returned by OpenDir: "nil" or "chan"
    status,     \* the Status returned by OpenDir, "none" before the call
    output,     \* the channel: [buf: buffered entries, closed: BOOLEAN]
    pc,         \* position of the goroutine
    infos,      \* goroutine local: last batch
    err,        \* goroutine local: last Readdir error
    idx,        \* goroutine local: index of the range loop
    consumer,   \* the caller: "idle", "draining", "stopped", "end"
    received    \* entries the caller has received, in order

dirVars == <<dir, dirPos, dirFile, dirFailed, nReaddir, stream, status,
             output, pc, infos, err, idx, consumer, received>>

VARIABLES
    names,      \* host: path -> inode number, NoIno when the path is absent
    inodes,     \* host: inode number -> [kind, data, mode, uid]
    fds,        \* host: file descriptor -> [state, ino, name]
    faulty,     \* host: whether its primitives may fail on their own
    ret         \* the last operation: its arguments, result and host calls

fsVars == <<names, inodes, fds, faulty, ret>>

vars == <<dirVars, fsVars>>

(***************************************************************************)
(* Part I: the host filesystem                                             *)
(*                                                                         *)
(* The host has one directory slot under the root and two slots inside    *)
(* it.  Inodes live as long as a name or an open descriptor refers to     *)
(* them.  Every primitive takes a fault: "OK" lets it run, an errno makes *)
(* it fail with that errno and without effect.                            *)
(***************************************************************************)
\* Number of host inodes.
MaxInode == 3

\* Number of host file descriptors.
MaxFd == 1

\* Largest file the host stores (longer files fail with EFBIG).
MaxLen == 2

root == "/r"

RelPaths == {"d", "d/a", "d/b"}

\* filepath.Join
Join(a, b) == a \o "/" \o b

HostPaths == {Join(root, p) : p \in RelPaths}

TopDir == Join(root, "d")

Parent(p) == IF p = TopDir THEN root ELSE TopDir

Children(p) == IF p = TopDir THEN HostPaths \ {TopDir} ELSE {}

Inos == 1..MaxInode

Fds == 1..MaxFd

Modes == {384, 420}

Uids == {0, 1}

NoIno == 0

FreeInode == [kind |-> "free", data |-> <<>>, mode |-> 0, uid |-> 0]

ClosedFd == [state |-> "closed", ino |-> NoIno, name |-> ""]

None == [kind |-> "none"]

Lowest(S) == CHOOSE x \in S : \A y \in S : x <= y

IsOpen(f) == f \in Fds /\ fds[f].state = "open"

\* An inode without a name and without an open descriptor is freed.
Collect(nm, ins, fs) ==
    [i \in Inos |->
        IF \/ \E p \in HostPaths : nm[p] = i
           \/ \E f \in Fds : fs[f].state = "open" /\ fs[f].ino = i
        THEN ins[i] ELSE FreeInode]

SysRet(e, nm, ins, fs, out) ==
    [errno |-> e, names |-> nm, inodes |-> Collect(nm, ins, fs), fds |-> fs,
     out |-> out]

SysFail(e) ==
    [errno |-> e, names |-> names, inodes |-> inodes, fds |-> fds,
     out |-> None]

\* Walking to the parent of p.
PrefixErr(p) ==
    IF Parent(p) = root THEN "OK"
    ELSE IF names[Parent(p)] = NoIno THEN "ENOENT"
    ELSE IF inodes[names[Parent(p)]].kind # "dir" THEN "ENOTDIR"
    ELSE "OK"

LookupErr(p) ==
    IF PrefixErr(p) # "OK" THEN PrefixErr(p)
    ELSE IF names[p] = NoIno THEN "ENOENT"
    ELSE "OK"

IsDir(p) == names[p] # NoIno /\ inodes[names[p]].kind = "dir"

NonEmpty(p) == \E c \in Children(p) : names[c] # NoIno

FreeInos == {i \in Inos : inodes[i].kind = "free"}

FreeFds == {f \in Fds : fds[f].state = "closed"}

\* The host's metadata of inode i.
HostStat(i) ==
    [kind |-> "FileInfo", Ino |-> i, IsDir |-> (inodes[i].kind = "dir"),
     Size |-> Len(inodes[i].data), Mode |-> inodes[i].mode,
     Uid |-> inodes[i].uid]

Resize(d, n) == [k \in 1..n |-> IF k <= Len(d) THEN d[k] ELSE 0]

Overwrite(d, off, w) ==
    LET n == IF Len(d) > off + Len(w) THEN Len(d) ELSE off + Len(w)
    IN  [k \in 1..n |-> IF k > off /\ k <= off + Len(w) THEN w[k - off]
                        ELSE IF k <= Len(d) THEN d[k] ELSE 0]

sys_lstat(p, fault) ==
    IF fault # "OK" THEN SysFail(fault)
    ELSE IF LookupErr(p) # "OK" THEN SysFail(LookupErr(p))
    ELSE SysRet("OK", names, inodes, fds, HostStat(names[p]))

\* open(2) with O_RDWR, and O_CREAT when "O_CREATE" is among the flags.
sys_open(p, flags, mode, fault) ==
    IF fault # "OK" THEN SysFail(fault)
    ELSE IF FreeFds = {} THEN SysFail("EMFILE")
    ELSE IF PrefixErr(p) # "OK" THEN SysFail(PrefixErr(p))
    ELSE IF names[p] = NoIno THEN
        IF "O_CREATE" \notin flags THEN SysFail("ENOENT")
        ELSE IF FreeInos = {} THEN SysFail("ENOSPC")
        ELSE LET i == Lowest(FreeInos)
                 f == Lowest(FreeFds)
             IN  SysRet("OK", [names EXCEPT ![p] = i],
                        [inodes EXCEPT ![i] = [kind |-> "file", data |-> <<>>,
                                               mode |-> mode, uid |-> 0]],
                        [fds EXCEPT ![f] = [state |-> "open", ino |-> i,
                                            name |-> p]],
                        f)
    ELSE IF IsDir(p) THEN SysFail("EISDIR")
    ELSE LET f == Lowest(FreeFds)
         IN  SysRet("OK", names, inodes,
                    [fds EXCEPT ![f] = [state |-> "open", ino |-> names[p],
                                        name |-> p]],
                    f)

sys_mkdir(p, mode, fault) ==
    IF fault # "OK" THEN SysFail(fault)
    ELSE IF PrefixErr(p) # "OK" THEN SysFail(PrefixErr(p))
    ELSE IF names[p] # NoIno THEN SysFail("EEXIST")
    ELSE IF FreeInos = {} THEN SysFail("ENOSPC")
    ELSE LET i == Lowest(FreeInos)
         IN  SysRet("OK", [names EXCEPT ![p] = i],
                    [inodes EXCEPT ![i] = [kind |-> "dir", data |-> <<>>,
                                           mode |-> mode, uid |-> 0]],
                    fds, None)

sys_unlink(p, fault) ==
    IF fault # "OK" THEN SysFail(fault)
    ELSE IF LookupErr(p) # "OK" THEN SysFail(LookupErr(p))
    ELSE IF IsDir(p) THEN SysFail("EISDIR")
    ELSE SysRet("OK", [names EXCEPT ![p] = NoIno], inodes, fds, None)

sys_rmdir(p, fault) ==
    IF fault # "OK" THEN SysFail(fault)
    ELSE IF LookupErr(p) # "OK" THEN SysFail(LookupErr(p))
    ELSE IF ~IsDir(p) THEN SysFail("ENOTDIR")
    ELSE IF NonEmpty(p) THEN SysFail("ENOTEMPTY")
    ELSE SysRet("OK", [names EXCEPT ![p] = NoIno], inodes, fds, None)

sys_rename(old, new, fault) ==
    IF fault # "OK" THEN SysFail(fault)
    ELSE IF LookupErr(old) # "OK" THEN SysFail(LookupErr(old))
    ELSE IF PrefixErr(new) # "OK" THEN SysFail(PrefixErr(new))
    ELSE IF old = new THEN SysRet("OK", names, inodes, fds, None)
    ELSE IF IsDir(old) /\ Parent(new) = old THEN SysFail("EINVAL")
    ELSE IF IsDir(old) /\ names[new] # NoIno /\ ~IsDir(new)
        THEN SysFail("ENOTDIR")
    ELSE IF IsDir(old) /\ NonEmpty(new) THEN SysFail("ENOTEMPTY")
    ELSE IF ~IsDir(old) /\ IsDir(new) THEN SysFail("EISDIR")
    ELSE SysRet("OK", [names EXCEPT ![old] = NoIno, ![new] = names[old]],
                inodes, fds, None)

sys_truncate(p, size, fault) ==
    IF fault # "OK" THEN SysFail(fault)
    ELSE IF LookupErr(p) # "OK" THEN SysFail(LookupErr(p))
    ELSE IF IsDir(p) THEN SysFail("EISDIR")
    ELSE IF size > MaxLen THEN SysFail("EFBIG")
    ELSE SysRet("OK", names,
                [inodes EXCEPT ![names[p]].data = Resize(@, size)], fds, None)

sys_ftruncate(f, size, fault) ==
    IF fault # "OK" THEN SysFail(fault)
    ELSE IF ~IsOpen(f) THEN SysFail("EBADF")
    ELSE IF size > MaxLen THEN SysFail("EFBIG")
    ELSE SysRet("OK", names,
                [inodes EXCEPT ![fds[f].ino].data = Resize(@, size)], fds,
                None)

sys_fchmod(f, mode, fault) ==
    IF fault # "OK" THEN SysFail(fault)
    ELSE IF ~IsOpen(f) THEN SysFail("EBADF")
    ELSE SysRet("OK", names, [inodes EXCEPT ![fds[f].ino].mode = mode], fds,
                None)

sys_fchown(f, uid, fault) ==
    IF fault # "OK" THEN SysFail(fault)
    ELSE IF ~IsOpen(f) THEN SysFail("EBADF")
    ELSE SysRet("OK", names, [inodes EXCEPT ![fds[f].ino].uid = uid], fds,
                None)

sys_fstat(f, fault) ==
    IF fault # "OK" THEN SysFail(fault)
    ELSE IF ~IsOpen(f) THEN SysFail("EBADF")
    ELSE SysRet("OK", names, inodes, fds, HostStat(fds[f].ino))

sys_fsync(f, fault) ==
    IF fault # "OK" THEN SysFail(fault)
    ELSE IF ~IsOpen(f) THEN SysFail("EBADF")
    ELSE SysRet("OK", names, inodes, fds, None)

sys_close(f) ==
    IF ~IsOpen(f) THEN SysFail("EBADF")
    ELSE SysRet("OK", names, inodes, [fds EXCEPT ![f] = ClosedFd], None)

\* pread(2): the bytes of the file from off, at most n of them.
sys_pread(f, n, off, fault) ==
    IF fault # "OK" THEN SysFail(fault)
    ELSE IF ~IsOpen(f) THEN SysFail("EBADF")
    ELSE LET d == inodes[fds[f].ino].data
             m == IF off >= Len(d) THEN 0 ELSE Min(n, Len(d) - off)
         IN  SysRet("OK", names, inodes, fds,
                    [kind |-> "bytes", b |-> SubSeq(d, off + 1, off + m)])

sys_pwrite(f, w, off, fault) ==
    IF fault # "OK" THEN SysFail(fault)
    ELSE IF ~IsOpen(f) THEN SysFail("EBADF")
    ELSE IF Len(w) = 0 THEN SysRet("OK", names, inodes, fds, None)
    ELSE IF off + Len(w) > MaxLen THEN SysFail("EFBIG")
    ELSE SysRet("OK", names,
                [inodes EXCEPT ![fds[f].ino].data = Overwrite(@, off, w)],
                fds, None)

(***************************************************************************)
(* The os package on top of the primitives.                               *)
(***************************************************************************)
\* os.EOF is not an errno.
os_EOF == [type |-> "errorString", errno |-> "ENOSYS"]

\* A nil *os.File.
NilFile == 0

os_Lstat(path, fault) ==
    LET r == sys_lstat(path, fault)
    IN  [fi |-> r.out,
         err |-> IF r.errno = "OK" THEN Nil ELSE PathError(r.errno),
         sys |-> r]

os_OpenFile(path, flags, perm, fault) ==
    LET r == sys_open(path, flags, perm, fault)
    IN  [f |-> IF r.errno = "OK" THEN r.out ELSE NilFile,
         err |-> IF r.errno = "OK" THEN Nil ELSE PathError(r.errno),
         sys |-> r]

\* File.ReadAt: pread until the buffer is full, the host fails or the host
\* returns no more bytes (EOF).  acc holds the bytes read so far.
RECURSIVE ReadAtLoop(_, _, _, _, _, _)
ReadAtLoop(f, left, off, acc, calls, fault) ==
    IF left = 0 THEN [data |-> acc, err |-> Nil, calls |-> calls]
    ELSE LET r == sys_pread(f, left, off, fault)
         IN  IF r.errno # "OK"
             THEN [data |-> acc, err |-> PathError(r.errno),
                   calls |-> Append(calls, "pread")]
             ELSE IF Len(r.out.b) = 0
             THEN [data |-> acc, err |-> os_EOF,
                   calls |-> Append(calls, "pread")]
             ELSE ReadAtLoop(f, left - Len(r.out.b), off + Len(r.out.b),
                             acc \o r.out.b, Append(calls, "pread"), fault)

os_ReadAt(f, b, off, fault) ==
    LET r == ReadAtLoop(f, Len(b), off, <<>>, <<>>, fault)
        n == Len(r.data)
    IN  [n |-> n, b |-> r.data \o SubSeq(b, n + 1, Len(b)), err |-> r.err,
         calls |-> r.calls]

os_WriteAt(f, w, off, fault) ==
    LET r == sys_pwrite(f, w, off, fault)
    IN  [n |-> IF r.errno = "OK" THEN Len(w) ELSE 0,
         err |-> IF r.errno = "OK" THEN Nil ELSE PathError(r.errno),
         sys |-> r]

OsErr(r) == IF r.errno = "OK" THEN Nil ELSE PathError(r.errno)

(***************************************************************************)
(* Part II: LoopbackFileSystem and LoopbackFile                            *)
(*                                                                         *)
(* Every operation is an operator from its arguments (and the fault the   *)
(* host answers with) to its effect: the new host state and the record of *)
(* what the caller got back and which host primitives were called.        *)
(***************************************************************************)
Effect(sys, r) ==
    [names |-> sys.names, inodes |-> sys.inodes, fds |-> sys.fds, ret |-> r]

Ret(op, args, st, out, hostErr, calls) ==
    [op |-> op, args |-> args, status |-> st, out |-> out,
     hostErr |-> hostErr, calls |-> calls]

\* &LoopbackFile{file: f}
LoopbackFile(f) == [kind |-> "LoopbackFile", file |-> f]

\* A nil File interface.
NilFuseFile == [kind |-> "nil"]

\* CopyFileInfo(fi, out)
CopyFileInfo(fi) ==
    [kind |-> "Attr", Ino |-> fi.Ino, IsDir |-> fi.IsDir, Size |-> fi.Size,
     Mode |-> fi.Mode, Uid |-> fi.Uid]

\* buffers.AllocBuffer(size): a pooled buffer of the requested length whose
\* content is whatever the pool left in it.
AllocBuffer(size) == [k \in 1..size |-> "?"]

GetPath(relPath) == Join(root, relPath)

GetAttr(name, fault) ==
    LET fullPath == GetPath(name)
        l == os_Lstat(fullPath, fault)
    IN  IF l.err # Nil
        THEN Effect(l.sys, Ret("GetAttr", <<name>>, ENOENT, None,
                               l.sys.errno, <<"lstat">>))
        ELSE Effect(l.sys, Ret("GetAttr", <<name>>, OK, CopyFileInfo(l.fi),
                               "OK", <<"lstat">>))

Open(name, flags, fault) ==
    LET o == os_OpenFile(GetPath(name), flags, 0, fault)
    IN  IF o.err # Nil
        THEN Effect(o.sys, Ret("Open", <<name>>, OsErrorToErrno(o.err),
                               NilFuseFile, o.sys.errno, <<"open">>))
        ELSE Effect(o.sys, Ret("Open", <<name>>, OK, LoopbackFile(o.f),
                               "OK", <<"open">>))

Create(path, flags, mode, fault) ==
    LET o == os_OpenFile(GetPath(path), flags \cup {"O_CREATE"}, mode, fault)
    IN  Effect(o.sys, Ret("Create", <<path>>, OsErrorToErrno(o.err),
                          LoopbackFile(o.f), o.sys.errno, <<"open">>))

Mkdir(path, mode, fault) ==
    LET r == sys_mkdir(GetPath(path), mode, fault)
    IN  Effect(r, Ret("Mkdir", <<path>>, OsErrorToErrno(OsErr(r)), None,
                      r.errno, <<"mkdir">>))

\* Mutation: os.Remove, which tries unlink and then rmdir.
UnlinkViaRemove(name, fault) ==
    LET u == sys_unlink(GetPath(name), fault)
        d == sys_rmdir(GetPath(name), fault)
    IN  IF u.errno = "OK"
        THEN Effect(u, Ret("Unlink", <<name>>, OK, None, "OK", <<"unlink">>))
        ELSE IF d.errno = "OK"
        THEN Effect(d, Ret("Unlink", <<name>>, OK, None, "OK",
                           <<"unlink", "rmdir">>))
        ELSE Effect(d, Ret("Unlink", <<name>>,
                           IF d.errno # "ENOTDIR" THEN d.errno ELSE u.errno,
                           None,
                           IF d.errno # "ENOTDIR" THEN d.errno ELSE u.errno,
                           <<"unlink", "rmdir">>))

Unlink(name, fault) ==
    LET r == sys_unlink(GetPath(name), fault)
    IN  Effect(r, Ret("Unlink", <<name>>, Status(r.errno), None, r.errno,
                      <<"unlink">>))

Rmdir(name, fault) ==
    LET r == sys_rmdir(GetPath(name), fault)
    IN  Effect(r, Ret("Rmdir", <<name>>, Status(r.errno), None, r.errno,
                      <<"rmdir">>))

Rename(oldPath, newPath, fault) ==
    LET r == sys_rename(GetPath(oldPath), GetPath(newPath), fault)
    IN  Effect(r, Ret("Rename", <<oldPath, newPath>>,
                      OsErrorToErrno(OsErr(r)), None, r.errno, <<"rename">>))

\* Mutation: end-of-file is passed through the error translation.
File_ReadEofIsError(me, offset, size, fault) ==
    LET slice == AllocBuffer(size)
        r == os_ReadAt(me.file, slice, offset, fault)
    IN  Effect(SysFail("OK"),
               Ret("Read", <<me, offset, size>>, OsErrorToErrno(r.err),
                   [kind |-> "bytes", b |-> SubSeq(r.b, 1, r.n)],
                   IF r.err.type = "PathError" THEN r.err.errno ELSE "OK",
                   r.calls))

File_Read(me, offset, size, fault) ==
    LET slice == AllocBuffer(size)
        r == os_ReadAt(me.file, slice, offset, fault)
    IN  Effect(SysFail("OK"),
               Ret("Read", <<me, offset, size>>,
                   IF r.err = os_EOF THEN OK ELSE OsErrorToErrno(r.err),
                   [kind |-> "bytes", b |-> SubSeq(r.b, 1, r.n)],
                   IF r.err.type = "PathError" THEN r.err.errno ELSE "OK",
                   r.calls))

File_Write(me, offset, data, fault) ==
    LET w == os_WriteAt(me.file, data, offset, fault)
    IN  Effect(w.sys, Ret("Write", <<me, offset, data>>,
                          OsErrorToErrno(w.err),
                          [kind |-> "count", n |-> w.n], w.sys.errno,
                          <<"pwrite">>))

File_Release(me) ==
    LET r == sys_close(me.file)
    IN  Effect(r, Ret("Release", <<me>>, OK, None, r.errno, <<"close">>))

File_Fsync(me, fault) ==
    LET r == sys_fsync(me.file, fault)
    IN  Effect(r, Ret("Fsync", <<me>>, Status(r.errno), None, r.errno,
                      <<"fsync">>))

\* Mutation: truncate by the name the file was opened under.
File_TruncateByName(me, size, fault) ==
    LET r == sys_truncate(fds[me.file].name, size, fault)
    IN  Effect(r, Ret("File.Truncate", <<me, size>>, Status(r.errno), None,
                      r.errno, <<"truncate">>))

File_Truncate(me, size, fault) ==
    LET r == sys_ftruncate(me.file, size, fault)
    IN  Effect(r, Ret("File.Truncate", <<me, size>>, Status(r.errno), None,
                      r.errno, <<"ftruncate">>))

File_Chmod(me, mode, fault) ==
    LET r == sys_fchmod(me.file, mode, fault)
    IN  Effect(r, Ret("File.Chmod", <<me, mode>>, OsErrorToErrno(OsErr(r)),
                      None, r.errno, <<"fchmod">>))

File_Chown(me, uid, gid, fault) ==
    LET r == sys_fchown(me.file, uid, fault)
    IN  Effect(r, Ret("File.Chown", <<me, uid>>, OsErrorToErrno(OsErr(r)),
                      None, r.errno, <<"fchown">>))

File_GetAttr(me, fault) ==
    LET r == sys_fstat(me.file, fault)
    IN  IF OsErr(r) # Nil
        THEN Effect(r, Ret("File.GetAttr", <<me>>, OsErrorToErrno(OsErr(r)),
                           None, r.errno, <<"fstat">>))
        ELSE Effect(r, Ret("File.GetAttr", <<me>>, OK, CopyFileInfo(r.out),
                           "OK", <<"fstat">>))

InitHost ==
    /\ names = [p \in HostPaths |->
                   IF p = TopDir THEN 1
                   ELSE IF p = Join(TopDir, "a") THEN 2 ELSE NoIno]
    /\ inodes = [i \in Inos |->
                   IF i = 1 THEN [kind |-> "dir", data |-> <<>>,
                                  mode |-> 420, uid |-> 0]
                   ELSE IF i = 2 THEN [kind |-> "file", data |-> <<>>,
                                       mode |-> 420, uid |-> 0]
                   ELSE FreeInode]
    /\ fds = [f \in Fds |-> ClosedFd]
    /\ ret = Ret("none", <<>>, OK, None, "OK", <<>>)

(***************************************************************************)
(* Part III: OpenDir                                                       *)
(***************************************************************************)
FileInfo(n) == [Name |-> n, Mode |-> n % 2, Size |-> n]

\* DirEntry{Name: infos[i].Name, Mode: infos[i].Mode}
DirEntry(fi) == [Name |-> fi.Name, Mode |-> fi.Mode]

\* f.Readdir(n) on the host, reading from position pos: without a fault it
\* returns the next n entries, fewer only at the end of the directory; with
\* a fault it returns an error and any part of the batch.
Readdir(pos, n) ==
    LET avail == Min(n, Len(dir) - pos)
    IN  {[infos |-> SubSeq(dir, pos + 1, pos + avail), err |-> Nil,
          pos |-> pos + avail]}
        \cup
        {[infos |-> SubSeq(dir, pos + 1, pos + k),
          err |-> SyscallError("EIO"), pos |-> pos + k] : k \in 0..avail}

\* make(chan DirEntry, want)
MakeChan == [buf |-> <<>>, closed |-> FALSE]

\* Mutation: a send that never blocks.
CanSendNonBlocking(ch) == TRUE

\* A send on the buffered channel proceeds only when the buffer has room.
CanSend(ch) == Len(ch.buf) < want

\* Mutation: the loop sends the first element of the batch every time.
SendValueFirst(batch, i) == DirEntry(batch[1])

\* The element the range loop sends at index i.
SendValue(batch, i) == DirEntry(batch[i])

\* Mutation: a full batch is taken for the end of the directory.
LoopBreaksOnFull(batch, e) == Len(batch) <= want \/ e # Nil

\* Mutation: a short batch does not end the loop.
LoopBreaksOnErrOnly(batch, e) == e # Nil

\* The two break conditions after the range loop.
LoopBreaks(batch, e) == Len(batch) < want \/ e # Nil

InitDir ==
    /\ InitHost
    /\ faulty = FALSE
    /\ \E n \in 0..MaxDir : dir = [k \in 1..n |-> FileInfo(k)]
    /\ dirPos = 0
    /\ dirFile = "none"
    /\ dirFailed = FALSE
    /\ nReaddir = 0
    /\ stream = "nil"
    /\ status = "none"
    /\ output = MakeChan
    /\ pc = "idle"
    /\ infos = <<>>
    /\ err = Nil
    /\ idx = 0
    /\ consumer = "idle"
    /\ received = <<>>

\* OpenDir when os.Open fails: no channel, the translated error.
OpenDirFail ==
    /\ status = "none"
    /\ \E e \in {PathError("ENOENT"), PathError("EACCES")} :
          status' = OsErrorToErrno(e)
    /\ stream' = "nil"
    /\ UNCHANGED <<dir, dirPos, dirFile, dirFailed, nReaddir, output, pc,
                   infos, err, idx, consumer, received>>
    /\ UNCHANGED fsVars

\* OpenDir when os.Open succeeds: make the channel, start the goroutine,
\* return (output, OK).
OpenDirOk ==
    /\ status = "none"
    /\ dirFile' = "open"
    /\ output' = MakeChan
    /\ pc' = "readdir"
    /\ stream' = "chan"
    /\ status' = OK
    /\ consumer' = "draining"
    /\ UNCHANGED <<dir, dirPos, dirFailed, nReaddir, infos, err, idx,
                   received>>
    /\ UNCHANGED fsVars

\* infos, err := f.Readdir(want)
ProducerReaddir ==
    /\ pc = "readdir"
    /\ nReaddir < MaxReaddir
    /\ \E r \in Readdir(dirPos, want) :
          /\ infos' = r.infos
          /\ err' = r.err
          /\ dirPos' = r.pos
          /\ dirFailed' = (dirFailed \/ r.err # Nil)
    /\ nReaddir' = nReaddir + 1
    /\ idx' = 1
    /\ pc' = "range"
    /\ UNCHANGED <<dir, dirFile, stream, status, output, consumer, received>>
    /\ UNCHANGED fsVars

\* output <- DirEntry{...}: one iteration of the range loop; blocks while
\* the channel is full.
ProducerSend ==
    /\ pc = "range"
    /\ idx <= Len(infos)
    /\ CanSend(output)
    /\ output' = [output EXCEPT !.buf = Append(@, SendValue(infos, idx))]
    /\ idx' = idx + 1
    /\ UNCHANGED <<dir, dirPos, dirFile, dirFailed, nReaddir, stream, status,
                   pc, infos, err, consumer, received>>
    /\ UNCHANGED fsVars

\* End of the range loop: break out of the for loop or fetch again.
ProducerCheck ==
    /\ pc = "range"
    /\ idx > Len(infos)
    /\ pc' = IF LoopBreaks(infos, err) THEN "close" ELSE "readdir"
    /\ UNCHANGED <<dir, dirPos, dirFile, dirFailed, nReaddir, stream, status,
                   output, infos, err, idx, consumer, received>>
    /\ UNCHANGED fsVars

\* close(output)
ProducerClose ==
    /\ pc = "close"
    /\ output' = [output EXCEPT !.closed = TRUE]
    /\ pc' = "fclose"
    /\ UNCHANGED <<dir, dirPos, dirFile, dirFailed, nReaddir, stream, status,
                   infos, err, idx, consumer, received>>
    /\ UNCHANGED fsVars

\* f.Close()
ProducerFClose ==
    /\ pc = "fclose"
    /\ dirFile' = "closed"
    /\ pc' = "done"
    /\ UNCHANGED <<dir, dirPos, dirFailed, nReaddir, stream, status, output,
                   infos, err, idx, consumer, received>>
    /\ UNCHANGED fsVars

Producer ==
    \/ ProducerReaddir
    \/ ProducerSend
    \/ ProducerCheck
    \/ ProducerClose
    \/ ProducerFClose

\* The caller receives one entry from the channel.
ConsumerRecv ==
    /\ consumer = "draining"
    /\ output.buf # <<>>
    /\ received' = Append(received, Head(output.buf))
    /\ output' = [output EXCEPT !.buf = Tail(@)]
    /\ UNCHANGED <<dir, dirPos, dirFile, dirFailed, nReaddir, stream, status,
                   pc, infos, err, idx, consumer>>
    /\ UNCHANGED fsVars

\* The caller's receive finds the channel closed and drained.
ConsumerEnd ==
    /\ consumer = "draining"
    /\ output.buf = <<>>
    /\ output.closed
    /\ consumer' = "end"
    /\ UNCHANGED <<dir, dirPos, dirFile, dirFailed, nReaddir, stream, status,
                   output, pc, infos, err, idx, received>>
    /\ UNCHANGED fsVars

\* The caller stops receiving before it has seen the channel closed.
ConsumerStop ==
    /\ consumer = "draining"
    /\ consumer' = "stopped"
    /\ UNCHANGED <<dir, dirPos, dirFile, dirFailed, nReaddir, stream, status,
                   output, pc, infos, err, idx, received>>
    /\ UNCHANGED fsVars

NextDir ==
    \/ OpenDirFail
    \/ OpenDirOk
    \/ ProducerReaddir
    \/ ProducerSend
    \/ ProducerCheck
    \/ ProducerClose
    \/ ProducerFClose
    \/ ConsumerRecv
    \/ ConsumerEnd
    \/ ConsumerStop

SpecDir == InitDir /\ [][NextDir]_vars

\* The goroutine is scheduled whenever it can run; a caller that has not
\* stopped keeps receiving.
FairSpecDir ==
    /\ InitDir
    /\ [][NextDir]_vars
    /\ WF_vars(Producer)
    /\ WF_vars(ConsumerRecv)
    /\ WF_vars(ConsumerEnd)

(***************************************************************************)
(* Actions of the filesystem: one call of one operation.                  *)
(***************************************************************************)
\* What a path primitive may answer on its own (permission denied).
PathFaults == IF faulty THEN {"OK", "EACCES"} ELSE {"OK"}

\* What a descriptor primitive may answer on its own (I/O error).
FdFaults == IF faulty THEN {"OK", "EIO"} ELSE {"OK"}

WriteData == {<<1>>, <<2, 1>>}

\* The File values the caller holds: those of open descriptors.
OpenFiles == {LoopbackFile(f) : f \in {g \in Fds : IsOpen(g)}}

Apply(e) ==
    /\ names' = e.names
    /\ inodes' = e.inodes
    /\ fds' = e.fds
    /\ ret' = e.ret
    /\ UNCHANGED faulty
    /\ UNCHANGED dirVars

DoGetAttr == \E name \in RelPaths, fault \in PathFaults :
    Apply(GetAttr(name, fault))

DoOpen == \E name \in RelPaths, fault \in PathFaults :
    Apply(Open(name, {"O_RDWR"}, fault))

DoCreate == \E path \in RelPaths, fault \in PathFaults :
    Apply(Create(path, {"O_RDWR"}, 420, fault))

DoMkdir == \E path \in RelPaths, fault \in PathFaults :
    Apply(Mkdir(path, 420, fault))

DoUnlink == \E name \in RelPaths, fault \in PathFaults :
    Apply(Unlink(name, fault))

DoRmdir == \E name \in RelPaths, fault \in PathFaults :
    Apply(Rmdir(name, fault))

DoRename == \E oldPath \in RelPaths, newPath \in RelPaths,
               fault \in PathFaults :
    Apply(Rename(oldPath, newPath, fault))

DoRead == \E me \in OpenFiles, offset \in 0..MaxLen, size \in 0..(MaxLen + 1),
             fault \in FdFaults :
    Apply(File_Read(me, offset, size, fault))

DoWrite == \E me \in OpenFiles, offset \in 0..MaxLen, data \in WriteData,
              fault \in FdFaults :
    Apply(File_Write(me, offset, data, fault))

DoRelease == \E me \in OpenFiles : Apply(File_Release(me))

DoFsync == \E me \in OpenFiles, fault \in FdFaults :
    Apply(File_Fsync(me, fault))

DoFileTruncate == \E me \in OpenFiles, size \in 0..(MaxLen + 1),
                     fault \in FdFaults :
    Apply(File_Truncate(me, size, fault))

DoFileChmod == \E me \in OpenFiles, mode \in Modes, fault \in FdFaults :
    Apply(File_Chmod(me, mode, fault))

DoFileChown == \E me \in OpenFiles, uid \in Uids, fault \in FdFaults :
    Apply(File_Chown(me, uid, uid, fault))

DoFileGetAttr == \E me \in OpenFiles, fault \in FdFaults :
    Apply(File_GetAttr(me, fault))

\* No directory listing is going on.
NoDir ==
    /\ dir = <<>>
    /\ dirPos = 0
    /\ dirFile = "none"
    /\ dirFailed = FALSE
    /\ nReaddir = 0
    /\ stream = "nil"
    /\ status = "none"
    /\ output = MakeChan
    /\ pc = "idle"
    /\ infos = <<>>
    /\ err = Nil
    /\ idx = 0
    /\ consumer = "idle"
    /\ received = <<>>

(***************************************************************************)
(* SpecPath: the path operations on a host that may fail on its own.      *)
(***************************************************************************)
InitPath == InitHost /\ faulty = TRUE /\ NoDir

NextPath ==
    \/ DoGetAttr
    \/ DoOpen
    \/ DoCreate
    \/ DoMkdir
    \/ DoUnlink
    \/ DoRmdir
    \/ DoRename
    \/ DoRelease
    \/ DoFileGetAttr
    \/ DoFsync

SpecPath == InitPath /\ [][NextPath]_vars

(***************************************************************************)
(* SpecFile: open files whose names are renamed and unlinked under them.  *)
(***************************************************************************)
InitFile == InitHost /\ faulty = FALSE /\ NoDir

NextFile ==
    \/ DoOpen
    \/ DoCreate
    \/ DoRename
    \/ DoUnlink
    \/ DoRelease
    \/ DoFsync
    \/ DoFileTruncate
    \/ DoFileChmod
    \/ DoFileChown
    \/ DoFileGetAttr

SpecFile == InitFile /\ [][NextFile]_vars

(***************************************************************************)
(* SpecData: reading and writing open files.                              *)
(***************************************************************************)
InitData == InitHost /\ faulty = TRUE /\ NoDir

NextData ==
    \/ DoOpen
    \/ DoRead
    \/ DoWrite
    \/ DoFileTruncate
    \/ DoRelease

SpecData == InitData /\ [][NextData]_vars

(***************************************************************************)
(* Properties of OpenDir                                                   *)
(***************************************************************************)
Listing == [k \in 1..Len(dir) |-> DirEntry(dir[k])]

Count(s, x) == Cardinality({k \in 1..Len(s) : s[k] = x})

\* C1: without a host error, a caller that receives until the channel is
\* closed has received every entry of the directory exactly once.
C1_EveryEntryOnce ==
    (consumer = "end" /\ ~dirFailed) =>
        /\ Len(received) = Len(dir)
        /\ \A k \in 1..Len(dir) : Count(received, Listing[k]) = 1

\* A drained listing of the largest directory: two full batches and a
\* short one.
C1_Witness ==
    /\ consumer = "end"
    /\ ~dirFailed
    /\ Len(dir) = 2 * want + 2
    /\ nReaddir = 3
    /\ Len(received) = Len(dir)

\* A drained listing of a directory of exactly one batch.
C1_WitnessExact ==
    consumer = "end" /\ ~dirFailed /\ Len(dir) = want /\ nReaddir = 2

\* C2: once OpenDir has opened the host directory handle, the handle is
\* eventually closed, whatever the caller does.
C2_HandleEventuallyClosed == (dirFile = "open") ~> (dirFile = "closed")

\* C3 as stated: once the caller has stopped before the channel is closed,
\* the channel is never closed.
C3_StoppedNeverCloses ==
    [][(consumer = "stopped" /\ ~output.closed) => ~output'.closed]_vars

\* The goroutine is at a send and the channel is full.
BlockedOnSend ==
    pc = "range" /\ idx <= Len(infos) /\ Len(output.buf) >= want

\* C3 amended: once the caller has stopped and the goroutine is at a send
\* on the full channel, the goroutine stays there: it sends nothing, does
\* not close the channel and does not close the handle.  A goroutine whose
\* caller has stopped ends up either there or finished.
C3_BlockedStaysBlocked ==
    /\ [][(consumer = "stopped" /\ BlockedOnSend)
            => (/\ pc' = "range"
                /\ idx' = idx
                /\ output' = output
                /\ ~output'.closed
                /\ dirFile' = "open")]_vars
    /\ (consumer = "stopped") ~> (BlockedOnSend \/ pc = "done")

\* The caller has stopped and the goroutine is blocked on the full channel.
C3_Witness ==
    /\ consumer = "stopped"
    /\ pc = "range"
    /\ idx <= Len(infos)
    /\ Len(output.buf) = want
    /\ dirFile = "open"

\* C4: after a batch shorter than `want` or a host error no further Readdir
\* is issued, and a caller that keeps receiving eventually sees the channel
\* closed.
C4_ProducerTerminates ==
    /\ [][(nReaddir > 0 /\ (Len(infos) < want \/ err # Nil))
            => nReaddir' = nReaddir]_vars
    /\ (status = OK) ~> (consumer \in {"end", "stopped"})

\* The caller saw the end of a listing that took several batches.
C4_Witness ==
    consumer = "end" /\ pc = "done" /\ nReaddir >= 2 /\ output.closed

\* C5: after a host error the caller sees the channel closed like after a
\* complete listing: OpenDir returned OK, and what was received is a
\* duplicate-free part of the directory.
C5_TruncatedListing ==
    (consumer = "end" /\ dirFailed) =>
        /\ output.closed
        /\ stream = "chan"
        /\ status = OK
        /\ Range(received) \subseteq Range(Listing)
        /\ \A k \in 1..Len(received) : Count(received, received[k]) = 1

\* A listing cut short by a host error after some entries were delivered.
C5_Witness ==
    /\ consumer = "end"
    /\ dirFailed
    /\ Len(received) >= 2
    /\ Len(received) < Len(dir)

(***************************************************************************)
(* Properties of the path and file operations                              *)
(***************************************************************************)
\* C6: Open and Create return a non-OK status whenever the host open
\* fails, and the File they return, if any, wraps an open host descriptor.
C6_FileWrapsOpenHandle ==
    ret.op \in {"Open", "Create"} =>
        /\ ret.hostErr # "OK" => ret.status # OK
        /\ ret.out.kind = "LoopbackFile" =>
              ret.out.file # NilFile /\ IsOpen(ret.out.file)

\* C7: a host failure reaches the caller as the status of that host error
\* (NotFound being the status of the host's "no such file").
C7_LosslessTranslation ==
    ret.hostErr # "OK" => ret.status = ret.hostErr

\* C8: without a host fault, Read at offset o <= L with size s returns the
\* min(s, L - o) bytes of the file from o, with status OK.
C8_ReadReturnsRemaining ==
    (ret.op = "Read" /\ ret.hostErr = "OK") =>
        LET d == inodes[fds[ret.args[1].file].ino].data
            o == ret.args[2]
            s == ret.args[3]
        IN  o <= Len(d) =>
                /\ ret.status = OK
                /\ ret.out.b = SubSeq(d, o + 1, o + Min(s, Len(d) - o))

\* A read that asks for more than what is left of a non-empty rest.
C8_Witness ==
    /\ ret.op = "Read"
    /\ ret.status = OK
    /\ ret.args[2] < Len(inodes[fds[ret.args[1].file].ino].data)
    /\ ret.args[3] > Len(ret.out.b)
    /\ Len(ret.out.b) > 0

\* A read at the end of a non-empty file.
C8_WitnessAtEnd ==
    /\ ret.op = "Read"
    /\ ret.status = OK
    /\ ret.args[2] = Len(inodes[fds[ret.args[1].file].ino].data)
    /\ ret.args[2] > 0
    /\ ret.args[3] > 0
    /\ ret.out.b = <<>>

HandleOps == {"File.Truncate", "File.Chmod", "File.Chown", "File.GetAttr",
              "Fsync"}

C9_WitnessUnlinked ==
    /\ ret.op \in {"File.Chmod", "File.Chown"}
    /\ ret.status = OK
    /\ LET f == ret.args[1].file
       IN  IsOpen(f) /\ \A p \in HostPaths : names[p] # fds[f].ino

\* C10: Unlink calls the host's unlink once and nothing else; on a
\* directory it fails and the directory stays; Rmdir on a non-empty
\* directory fails with ENOTEMPTY (or the host's own fault) and removes
\* nothing.
C10_UnlinkNeverRemovesDir ==
    [][/\ ret'.op = "Unlink" =>
            /\ ret'.calls = <<"unlink">>
            /\ IsDir(GetPath(ret'.args[1])) =>
                  /\ ret'.status # OK
                  /\ names' = names
                  /\ inodes' = inodes
       /\ (/\ ret'.op = "Rmdir"
           /\ IsDir(GetPath(ret'.args[1]))
           /\ NonEmpty(GetPath(ret'.args[1]))) =>
            /\ ret'.status = ret'.hostErr
            /\ ret'.status \in {"ENOTEMPTY", "EACCES"}
            /\ names' = names
            /\ inodes' = inodes]_vars

\* Unlink was called on an empty directory: it failed and the directory
\* is still there.
C10_Witness ==
    /\ ret.op = "Unlink"
    /\ ret.status = "EISDIR"
    /\ IsDir(GetPath(ret.args[1]))
    /\ ~NonEmpty(GetPath(ret.args[1]))

\* Rmdir was called on a non-empty directory and answered ENOTEMPTY.
C10_WitnessRmdir ==
    /\ ret.op = "Rmdir"
    /\ ret.status = "ENOTEMPTY"
    /\ NonEmpty(GetPath(ret.args[1]))

====
